---------------------------- MODULE Spec2Model ----------------------------
(***************************************************************************)
(* Model of scripts/generate_keyboard_layers.py: the keycode decoder       *)
(* parse_keycode, the markup escaper escape_svg_text and the placeholder   *)
(* substitution of generate_layer_svg.                                     *)
(*                                                                         *)
(* A Python str is modelled as a sequence of one-character strings, so     *)
(* len, slicing, startswith, replace and the regular expressions act on    *)
(* characters as they do in the source.  A character outside ASCII, and    *)
(* the backquote, is the one element "U+xxxx" naming its code point, e.g.  *)
(* "U+21E7" for the shift arrow.  A Python value that may be None is a     *)
(* record: None, Str(s) or List(l).                                        *)
(***************************************************************************)
EXTENDS Integers, Sequences, FiniteSets, TLC

VARIABLES
    keycode,        \* parse_keycode: the argument
    pc,             \* parse_keycode: "call" before the call, "done" after the return
    short,          \* parse_keycode: first component of the returned pair
    long,           \* parse_keycode: second component of the returned pair
    rule,           \* parse_keycode: the return statement that produced the pair
    text,           \* escape_svg_text: the argument of the first call
    escaped,        \* escape_svg_text: the values returned so far, oldest first
    template,       \* generate_layer_svg: the template text
    keyboard_data,  \* generate_layer_svg: the parsed keyboard JSON
    layer_index,    \* generate_layer_svg: the layer to draw
    svg_content,    \* generate_layer_svg: the document being built
    i,              \* generate_layer_svg: loop index
    svg_pc          \* generate_layer_svg: position in the function

vars == <<keycode, pc, short, long, rule, text, escaped,
          template, keyboard_data, layer_index, svg_content, i, svg_pc>>

decode_vars == <<keycode, pc, short, long, rule>>
escape_vars == <<text, escaped>>
svg_vars == <<template, keyboard_data, layer_index, svg_content, i, svg_pc>>

---------------------------------------------------------------------------
(* Bounds of the model.                                                    *)

\* longest arbitrary code / text drawn over the small alphabets
MaxLen == 4
\* most digits of the layer number n in MO(n), DF(n), LT(n,..)
MaxDigits == 8
\* most characters of trailing junk after a code
MaxSuffix == 1
\* most fragments a template is assembled from
MaxFrags == 3

---------------------------------------------------------------------------
(* Python values and str primitives.                                       *)

None == [type |-> "NoneType"]
Str(s) == [type |-> "str", val |-> s]
List(l) == [type |-> "list", val |-> l]

UPPER == {"A", "B", "C", "D", "E", "F", "G", "H", "I", "J", "K", "L", "M",
          "N", "O", "P", "Q", "R", "S", "T", "U", "V", "W", "X", "Y", "Z"}
DIGIT == {"0", "1", "2", "3", "4", "5", "6", "7", "8", "9"}
AZ09 == UPPER \cup DIGIT

Min(a, b) == IF a <= b THEN a ELSE b

\* s[k], or "" past the end of s
At(s, k) == IF k \in 1..Len(s) THEN s[k] ELSE ""

\* s[:n]
Slice(s, n) == SubSeq(s, 1, Min(n, Len(s)))

\* s[n:]
Drop(s, n) == SubSeq(s, Min(n, Len(s)) + 1, Len(s))

\* the literal p stands in s at position from (1-based)
lit_at(s, from, p) ==
    /\ from + Len(p) - 1 <= Len(s)
    /\ SubSeq(s, from, from + Len(p) - 1) = p

\* s.startswith(p)
startswith(s, p) == lit_at(s, 1, p)

\* dict.get(k, default)
get(d, k, default) == IF k \in DOMAIN d THEN d[k] ELSE default

\* str.upper() on the letters the model draws; other characters are unchanged
upper_map ==
    "a" :> "A" @@ "b" :> "B" @@ "c" :> "C" @@ "d" :> "D" @@ "e" :> "E" @@ "f" :> "F" @@ "g" :> "G" @@
    "h" :> "H" @@ "i" :> "I" @@ "j" :> "J" @@ "k" :> "K" @@ "l" :> "L" @@ "m" :> "M" @@ "n" :> "N" @@
    "o" :> "O" @@ "p" :> "P" @@ "q" :> "Q" @@ "r" :> "R" @@ "s" :> "S" @@ "t" :> "T" @@ "u" :> "U" @@
    "v" :> "V" @@ "w" :> "W" @@ "x" :> "X" @@ "y" :> "Y" @@ "z" :> "Z"
upper(s) == [k \in 1..Len(s) |-> get(upper_map, s[k], s[k])]

\* str(n) for 0 <= n < 100, as the f-string {i} formats the loop index
digit_chars == <<"0", "1", "2", "3", "4", "5", "6", "7", "8", "9">>
str_int(n) ==
    IF n < 10 THEN <<digit_chars[n + 1]>>
    ELSE <<digit_chars[(n \div 10) + 1], digit_chars[(n % 10) + 1]>>

\* str.replace(old, new) for a non-empty old: the non-overlapping occurrences of
\* old, found left to right, are each replaced by new
RECURSIVE replace(_, _, _)
replace(s, old, new) ==
    IF Len(s) < Len(old) THEN s
    ELSE IF startswith(s, old) THEN new \o replace(Drop(s, Len(old)), old, new)
    ELSE <<Head(s)>> \o replace(Tail(s), old, new)

\* old in s
contains(s, old) == \E k \in 1..Len(s) : lit_at(s, k, old)

---------------------------------------------------------------------------
(* The static tables.                                                      *)

QMK_KEYCODE_MAP ==
    <<"K", "C", "_", "A">> :> <<"A">> @@ <<"K", "C", "_", "B">> :> <<"B">> @@
    <<"K", "C", "_", "C">> :> <<"C">> @@ <<"K", "C", "_", "D">> :> <<"D">> @@
    <<"K", "C", "_", "E">> :> <<"E">> @@ <<"K", "C", "_", "F">> :> <<"F">> @@
    <<"K", "C", "_", "G">> :> <<"G">> @@ <<"K", "C", "_", "H">> :> <<"H">> @@
    <<"K", "C", "_", "I">> :> <<"I">> @@ <<"K", "C", "_", "J">> :> <<"J">> @@
    <<"K", "C", "_", "K">> :> <<"K">> @@ <<"K", "C", "_", "L">> :> <<"L">> @@
    <<"K", "C", "_", "M">> :> <<"M">> @@ <<"K", "C", "_", "N">> :> <<"N">> @@
    <<"K", "C", "_", "O">> :> <<"O">> @@ <<"K", "C", "_", "P">> :> <<"P">> @@
    <<"K", "C", "_", "Q">> :> <<"Q">> @@ <<"K", "C", "_", "R">> :> <<"R">> @@
    <<"K", "C", "_", "S">> :> <<"S">> @@ <<"K", "C", "_", "T">> :> <<"T">> @@
    <<"K", "C", "_", "U">> :> <<"U">> @@ <<"K", "C", "_", "V">> :> <<"V">> @@
    <<"K", "C", "_", "W">> :> <<"W">> @@ <<"K", "C", "_", "X">> :> <<"X">> @@
    <<"K", "C", "_", "Y">> :> <<"Y">> @@ <<"K", "C", "_", "Z">> :> <<"Z">> @@
    <<"K", "C", "_", "1">> :> <<"1">> @@ <<"K", "C", "_", "2">> :> <<"2">> @@
    <<"K", "C", "_", "3">> :> <<"3">> @@ <<"K", "C", "_", "4">> :> <<"4">> @@
    <<"K", "C", "_", "5">> :> <<"5">> @@ <<"K", "C", "_", "6">> :> <<"6">> @@
    <<"K", "C", "_", "7">> :> <<"7">> @@ <<"K", "C", "_", "8">> :> <<"8">> @@
    <<"K", "C", "_", "9">> :> <<"9">> @@ <<"K", "C", "_", "0">> :> <<"0">> @@
    <<"K", "C", "_", "F", "1">> :> <<"F", "1">> @@ <<"K", "C", "_", "F", "2">> :> <<"F", "2">> @@
    <<"K", "C", "_", "F", "3">> :> <<"F", "3">> @@ <<"K", "C", "_", "F", "4">> :> <<"F", "4">> @@
    <<"K", "C", "_", "F", "5">> :> <<"F", "5">> @@ <<"K", "C", "_", "F", "6">> :> <<"F", "6">> @@
    <<"K", "C", "_", "F", "7">> :> <<"F", "7">> @@ <<"K", "C", "_", "F", "8">> :> <<"F", "8">> @@
    <<"K", "C", "_", "F", "9">> :> <<"F", "9">> @@ <<"K", "C", "_", "F", "1", "0">> :> <<"F", "1", "0">> @@
    <<"K", "C", "_", "F", "1", "1">> :> <<"F", "1", "1">> @@ <<"K", "C", "_", "F", "1", "2">> :> <<"F", "1", "2">> @@
    <<"K", "C", "_", "M", "I", "N", "S">> :> <<"-">> @@ <<"K", "C", "_", "E", "Q", "L">> :> <<"=">> @@
    <<"K", "C", "_", "L", "B", "R", "C">> :> <<"[">> @@ <<"K", "C", "_", "R", "B", "R", "C">> :> <<"]">> @@
    <<"K", "C", "_", "B", "S", "L", "S">> :> <<"\\">> @@ <<"K", "C", "_", "S", "C", "L", "N">> :> <<";">> @@
    <<"K", "C", "_", "Q", "U", "O", "T">> :> <<"'">> @@ <<"K", "C", "_", "G", "R", "V">> :> <<"U+0060">> @@
    <<"K", "C", "_", "C", "O", "M", "M">> :> <<",">> @@ <<"K", "C", "_", "D", "O", "T">> :> <<".">> @@
    <<"K", "C", "_", "S", "L", "S", "H">> :> <<"/">> @@ <<"K", "C", "_", "T", "I", "L", "D">> :> <<"~">> @@
    <<"K", "C", "_", "E", "X", "L", "M">> :> <<"!">> @@ <<"K", "C", "_", "A", "T">> :> <<"@">> @@
    <<"K", "C", "_", "H", "A", "S", "H">> :> <<"#">> @@ <<"K", "C", "_", "D", "L", "R">> :> <<"$">> @@
    <<"K", "C", "_", "P", "E", "R", "C">> :> <<"%">> @@ <<"K", "C", "_", "C", "I", "R", "C">> :> <<"^">> @@
    <<"K", "C", "_", "A", "M", "P", "R">> :> <<"&">> @@ <<"K", "C", "_", "A", "S", "T", "R">> :> <<"*">> @@
    <<"K", "C", "_", "L", "P", "R", "N">> :> <<"(">> @@ <<"K", "C", "_", "R", "P", "R", "N">> :> <<")">> @@
    <<"K", "C", "_", "U", "N", "D", "S">> :> <<"_">> @@ <<"K", "C", "_", "P", "L", "U", "S">> :> <<"+">> @@
    <<"K", "C", "_", "L", "C", "B", "R">> :> <<"{">> @@ <<"K", "C", "_", "R", "C", "B", "R">> :> <<"}">> @@
    <<"K", "C", "_", "P", "I", "P", "E">> :> <<"|">> @@ <<"K", "C", "_", "C", "O", "L", "N">> :> <<":">> @@
    <<"K", "C", "_", "D", "Q", "U", "O">> :> <<"\"">> @@ <<"K", "C", "_", "L", "T">> :> <<"<">> @@
    <<"K", "C", "_", "G", "T">> :> <<">">> @@ <<"K", "C", "_", "Q", "U", "E", "S">> :> <<"?">> @@
    <<"K", "C", "_", "S", "P", "C">> :> <<"U+2423">> @@ <<"K", "C", "_", "E", "N", "T">> :> <<"U+21B5">> @@
    <<"K", "C", "_", "B", "S", "P", "C">> :> <<"U+232B">> @@ <<"K", "C", "_", "D", "E", "L">> :> <<"U+2326">> @@
    <<"K", "C", "_", "T", "A", "B">> :> <<"U+21E5">> @@ <<"K", "C", "_", "E", "S", "C">> :> <<"U+238B">> @@
    <<"K", "C", "_", "C", "A", "P", "S">> :> <<"U+21EA">> @@ <<"K", "C", "_", "L", "S", "F", "T">> :> <<"S", "h", "i", "f", "t">> @@
    <<"K", "C", "_", "R", "S", "F", "T">> :> <<"S", "h", "i", "f", "t">> @@ <<"K", "C", "_", "L", "C", "T", "L">> :> <<"C", "t", "r", "l">> @@
    <<"K", "C", "_", "R", "C", "T", "L">> :> <<"C", "t", "r", "l">> @@ <<"K", "C", "_", "L", "A", "L", "T">> :> <<"A", "l", "t">> @@
    <<"K", "C", "_", "R", "A", "L", "T">> :> <<"A", "l", "t">> @@ <<"K", "C", "_", "L", "G", "U", "I">> :> <<"W", "i", "n">> @@
    <<"K", "C", "_", "R", "G", "U", "I">> :> <<"W", "i", "n">> @@ <<"K", "C", "_", "L", "E", "F", "T">> :> <<"U+2190">> @@
    <<"K", "C", "_", "D", "O", "W", "N">> :> <<"U+2193">> @@ <<"K", "C", "_", "U", "P">> :> <<"U+2191">> @@
    <<"K", "C", "_", "R", "G", "H", "T">> :> <<"U+2192">> @@ <<"K", "C", "_", "H", "O", "M", "E">> :> <<"H", "o", "m", "e">> @@
    <<"K", "C", "_", "E", "N", "D">> :> <<"E", "n", "d">> @@ <<"K", "C", "_", "P", "G", "U", "P">> :> <<"P", "g", "U", "p">> @@
    <<"K", "C", "_", "P", "G", "D", "N">> :> <<"P", "g", "D", "n">> @@ <<"K", "C", "_", "T", "R", "N", "S">> :> <<"U+25BD">> @@
    <<"D", "F", "(", "0", ")">> :> <<"L", "0">> @@ <<"D", "F", "(", "1", ")">> :> <<"L", "1">> @@
    <<"D", "F", "(", "2", ")">> :> <<"L", "2">> @@ <<"K", "C", "_", "M", "U", "T", "E">> :> <<"M", "u", "t", "e">> @@
    <<"K", "C", "_", "V", "O", "L", "D">> :> <<"V", "o", "l", "-">> @@ <<"K", "C", "_", "V", "O", "L", "U">> :> <<"V", "o", "l", "+">> @@
    <<"K", "C", "_", "M", "P", "L", "Y">> :> <<"P", "l", "a", "y">> @@ <<"K", "C", "_", "M", "N", "X", "T">> :> <<"N", "e", "x", "t">> @@
    <<"K", "C", "_", "M", "P", "R", "V">> :> <<"P", "r", "e", "v">> @@ <<"Q", "K", "_", "B", "O", "O", "T">> :> <<"B", "o", "o", "t">> @@
    <<"D", "B", "_", "T", "O", "G", "G">> :> <<"D", "e", "b", "u", "g">> @@ <<"B", "L", "_", "S", "T", "E", "P">> :> <<"B", "L", "i", "g", "h", "t">> @@
    <<"K", "C", "_", "M", "S", "_", "U">> :> <<"M", "U+2191">> @@ <<"K", "C", "_", "M", "S", "_", "D">> :> <<"M", "U+2193">> @@
    <<"K", "C", "_", "M", "S", "_", "L">> :> <<"M", "U+2190">> @@ <<"K", "C", "_", "M", "S", "_", "R">> :> <<"M", "U+2192">> @@
    <<"K", "C", "_", "B", "T", "N", "1">> :> <<"M", "1">> @@ <<"K", "C", "_", "B", "T", "N", "2">> :> <<"M", "2">> @@
    <<"K", "C", "_", "B", "T", "N", "3">> :> <<"M", "3">>

numpad_keys ==
    <<"K", "C", "_", "P", "0">> :> <<"0">> @@ <<"K", "C", "_", "P", "1">> :> <<"1">> @@
    <<"K", "C", "_", "P", "2">> :> <<"2">> @@ <<"K", "C", "_", "P", "3">> :> <<"3">> @@
    <<"K", "C", "_", "P", "4">> :> <<"4">> @@ <<"K", "C", "_", "P", "5">> :> <<"5">> @@
    <<"K", "C", "_", "P", "6">> :> <<"6">> @@ <<"K", "C", "_", "P", "7">> :> <<"7">> @@
    <<"K", "C", "_", "P", "8">> :> <<"8">> @@ <<"K", "C", "_", "P", "9">> :> <<"9">> @@
    <<"K", "C", "_", "P", "D", "O", "T">> :> <<".">> @@ <<"K", "C", "_", "P", "C", "M", "M">> :> <<",">> @@
    <<"K", "C", "_", "P", "S", "L", "S">> :> <<"/">> @@ <<"K", "C", "_", "P", "A", "S", "T">> :> <<"*">> @@
    <<"K", "C", "_", "P", "M", "N", "S">> :> <<"-">> @@ <<"K", "C", "_", "P", "P", "L", "S">> :> <<"+">> @@
    <<"K", "C", "_", "P", "E", "Q", "L">> :> <<"=">> @@ <<"K", "C", "_", "P", "E", "N", "T">> :> <<"U+21B5">>

special_mappings ==
    <<"T", "A", "B">> :> <<"U+21E5">> @@ <<"S", "P", "C">> :> <<"U+2423">> @@
    <<"E", "N", "T">> :> <<"U+21B5">> @@ <<"B", "S", "P", "C">> :> <<"U+232B">> @@
    <<"D", "E", "L">> :> <<"U+2326">> @@ <<"E", "S", "C">> :> <<"U+238B">> @@
    <<"C", "A", "P", "S">> :> <<"U+21EA">>


mod_short ==
    <<"L", "G", "U", "I">> :> <<"U+2318">> @@ <<"R", "G", "U", "I">> :> <<"U+2318">> @@ <<"L", "A", "L", "T">> :> <<"U+2325">> @@ <<"R", "A", "L", "T">> :> <<"U+2325">> @@
    <<"L", "C", "T", "L">> :> <<"U+2303">> @@ <<"R", "C", "T", "L">> :> <<"U+2303">> @@ <<"L", "S", "F", "T">> :> <<"U+21E7">> @@ <<"R", "S", "F", "T">> :> <<"U+21E7">>

mod_name_AltGr ==
    <<"L", "G", "U", "I">> :> <<"W", "i", "n">> @@ <<"R", "G", "U", "I">> :> <<"W", "i", "n">> @@ <<"L", "A", "L", "T">> :> <<"A", "l", "t">> @@ <<"R", "A", "L", "T">> :> <<"A", "l", "t", "G", "r">> @@
    <<"L", "C", "T", "L">> :> <<"C", "t", "r", "l">> @@ <<"R", "C", "T", "L">> :> <<"C", "t", "r", "l">> @@ <<"L", "S", "F", "T">> :> <<"S", "h", "i", "f", "t">> @@ <<"R", "S", "F", "T">> :> <<"S", "h", "i", "f", "t">>

mod_name ==
    <<"L", "G", "U", "I">> :> <<"W", "i", "n">> @@ <<"R", "G", "U", "I">> :> <<"W", "i", "n">> @@ <<"L", "A", "L", "T">> :> <<"A", "l", "t">> @@ <<"R", "A", "L", "T">> :> <<"A", "l", "t">> @@
    <<"L", "C", "T", "L">> :> <<"C", "t", "r", "l">> @@ <<"R", "C", "T", "L">> :> <<"C", "t", "r", "l">> @@ <<"L", "S", "F", "T">> :> <<"S", "h", "i", "f", "t">> @@ <<"R", "S", "F", "T">> :> <<"S", "h", "i", "f", "t">>

\* the second dict named mod_short, local to the modifier-tap branch
mod_tap_short ==
    <<"L", "C", "T", "L">> :> <<"C", "t", "r", "l">> @@ <<"R", "C", "T", "L">> :> <<"C", "t", "r", "l">> @@ <<"L", "A", "L", "T">> :> <<"A", "l", "t">> @@ <<"R", "A", "L", "T">> :> <<"A", "l", "t">> @@
    <<"L", "S", "F", "T">> :> <<"S", "h", "i", "f", "t">> @@ <<"R", "S", "F", "T">> :> <<"S", "h", "i", "f", "t">> @@ <<"L", "G", "U", "I">> :> <<"W", "i", "n">> @@ <<"R", "G", "U", "I">> :> <<"W", "i", "n">>

---------------------------------------------------------------------------
(* The regular expressions of parse_keycode.  re.match anchors a pattern   *)
(* at the start of the code and nowhere else.  A match is a record of the  *)
(* position where it ends (m.end()) and its groups.  The model draws ASCII *)
(* characters only, so \d is 0-9.                                          *)

NoMatch == [ok |-> FALSE]
Match(e, g) == [ok |-> TRUE, end |-> e, groups |-> g]

\* length of the longest run of digits of s from position from: \d* is greedy
digit_run(s, from) ==
    CHOOSE n \in 0..Len(s) :
        /\ \A j \in from..(from + n - 1) : j <= Len(s) /\ s[j] \in DIGIT
        /\ At(s, from + n) \notin DIGIT

\* length of the longest run of characters other than ")" from position from
not_rparen_run(s, from) ==
    CHOOSE n \in 0..Len(s) :
        /\ \A j \in from..(from + n - 1) : j <= Len(s) /\ s[j] # ")"
        /\ At(s, from + n) \in {")", ""}

\* re.match(r"([LR](?:GUI|ALT|CTL|SFT))\(KC_([A-Z0-9])\)", keycode)
mod_combo_match(code) ==
    IF /\ At(code, 1) \in {"L", "R"}
       /\ \E m \in {<<"G", "U", "I">>, <<"A", "L", "T">>, <<"C", "T", "L">>, <<"S", "F", "T">>} : lit_at(code, 2, m)
       /\ lit_at(code, 5, <<"(", "K", "C", "_">>)
       /\ At(code, 9) \in AZ09
       /\ At(code, 10) = ")"
    THEN Match(10, <<SubSeq(code, 1, 4), <<code[9]>>>>)
    ELSE NoMatch

\* re.match(r"(?:L?SFT|S)\(KC_([A-Z0-9])\)", keycode)
shift_match_no_S(code) ==
    IF \E p \in {<<"L", "S", "F", "T">>, <<"S", "F", "T">>} :
           /\ lit_at(code, 1, p \o <<"(", "K", "C", "_">>)
           /\ At(code, Len(p) + 5) \in AZ09
           /\ At(code, Len(p) + 6) = ")"
    THEN LET p == CHOOSE p \in {<<"L", "S", "F", "T">>, <<"S", "F", "T">>} : lit_at(code, 1, p \o <<"(", "K", "C", "_">>)
         IN  Match(Len(p) + 6, <<<<code[Len(p) + 5]>>>>)
    ELSE NoMatch

shift_match(code) ==
    IF \E p \in {<<"L", "S", "F", "T">>, <<"S", "F", "T">>, <<"S">>} :
           /\ lit_at(code, 1, p \o <<"(", "K", "C", "_">>)
           /\ At(code, Len(p) + 5) \in AZ09
           /\ At(code, Len(p) + 6) = ")"
    THEN LET p == CHOOSE p \in {<<"L", "S", "F", "T">>, <<"S", "F", "T">>, <<"S">>} : lit_at(code, 1, p \o <<"(", "K", "C", "_">>)
         IN  Match(Len(p) + 6, <<<<code[Len(p) + 5]>>>>)
    ELSE NoMatch

\* re.match(r"LT\((\d+),KC_([A-Z])\)", keycode)
lt_match(code) ==
    LET n == digit_run(code, 4)
    IN  IF /\ lit_at(code, 1, <<"L", "T", "(">>)
           /\ n >= 1
           /\ lit_at(code, 4 + n, <<",", "K", "C", "_">>)
           /\ At(code, 8 + n) \in UPPER
           /\ At(code, 9 + n) = ")"
        THEN Match(9 + n, <<SubSeq(code, 4, 3 + n), <<code[8 + n]>>>>)
        ELSE NoMatch

\* re.match(r"([LR](?:CTL|ALT|SFT|GUI))_T\(KC_([A-Z])\)", keycode)
mod_tap_match(code) ==
    IF /\ At(code, 1) \in {"L", "R"}
       /\ \E m \in {<<"C", "T", "L">>, <<"A", "L", "T">>, <<"S", "F", "T">>, <<"G", "U", "I">>} : lit_at(code, 2, m)
       /\ lit_at(code, 5, <<"_", "T", "(", "K", "C", "_">>)
       /\ At(code, 11) \in UPPER
       /\ At(code, 12) = ")"
    THEN Match(12, <<SubSeq(code, 1, 4), <<code[11]>>>>)
    ELSE NoMatch

\* re.match(r"MO\((\d+)\)", keycode)
mo_match(code) ==
    LET n == digit_run(code, 4)
    IN  IF lit_at(code, 1, <<"M", "O", "(">>) /\ n >= 1 /\ At(code, 4 + n) = ")"
        THEN Match(4 + n, <<SubSeq(code, 4, 3 + n)>>)
        ELSE NoMatch

\* re.match(r"DF\((\d+)\)", keycode)
df_match(code) ==
    LET n == digit_run(code, 4)
    IN  IF lit_at(code, 1, <<"D", "F", "(">>) /\ n >= 1 /\ At(code, 4 + n) = ")"
        THEN Match(4 + n, <<SubSeq(code, 4, 3 + n)>>)
        ELSE NoMatch

\* re.match(r"ANY\(([^)]+)\)", keycode)
any_match(code) ==
    LET n == not_rparen_run(code, 5)
    IN  IF lit_at(code, 1, <<"A", "N", "Y", "(">>) /\ n >= 1 /\ At(code, 5 + n) = ")"
        THEN Match(5 + n, <<SubSeq(code, 5, 4 + n)>>)
        ELSE NoMatch

\* re.match(r"LSFT\(([^)]+)\)", keycode)
lsft_match(code) ==
    LET n == not_rparen_run(code, 6)
    IN  IF lit_at(code, 1, <<"L", "S", "F", "T", "(">>) /\ n >= 1 /\ At(code, 6 + n) = ")"
        THEN Match(6 + n, <<SubSeq(code, 6, 5 + n)>>)
        ELSE NoMatch

---------------------------------------------------------------------------
(* parse_keycode: a chain of tests, each ending in a return.  RuleOrder    *)
(* lists the tests in the order of the source, Matches is the condition of *)
(* each and Handle the pair its return statement builds.                   *)

RuleOrder_TableFirst ==
    <<"no_key", "keycode_map", "transparent", "mod_combo", "shift", "lt", "mod_tap",
      "mo", "df", "qk_rep", "qk_boot", "qk_rbt", "ee_clr", "db_togg", "sc_lspo",
      "sc_rspc", "numpad", "any", "lsft", "kc_prefix", "fallback">>

RuleOrder ==
    <<"no_key", "transparent", "mod_combo", "shift", "lt", "mod_tap", "mo", "df",
      "qk_rep", "qk_boot", "qk_rbt", "ee_clr", "db_togg", "sc_lspo", "sc_rspc",
      "numpad", "any", "lsft", "keycode_map", "kc_prefix", "fallback">>

Matches(r, code) ==
    CASE r = "no_key"      -> code = <<>> \/ code = <<"K", "C", "_", "N", "O">>
      [] r = "transparent" -> code = <<"K", "C", "_", "T", "R", "N", "S">>
      [] r = "mod_combo"   -> mod_combo_match(code).ok
      [] r = "shift"       -> shift_match(code).ok
      [] r = "lt"          -> lt_match(code).ok
      [] r = "mod_tap"     -> mod_tap_match(code).ok
      [] r = "mo"          -> mo_match(code).ok
      [] r = "df"          -> df_match(code).ok
      [] r = "qk_rep"      -> code = <<"Q", "K", "_", "R", "E", "P">>
      [] r = "qk_boot"     -> code = <<"Q", "K", "_", "B", "O", "O", "T">>
      [] r = "qk_rbt"      -> code = <<"Q", "K", "_", "R", "B", "T">>
      [] r = "ee_clr"      -> code = <<"E", "E", "_", "C", "L", "R">>
      [] r = "db_togg"     -> code = <<"D", "B", "_", "T", "O", "G", "G">>
      [] r = "sc_lspo"     -> code = <<"S", "C", "_", "L", "S", "P", "O">>
      [] r = "sc_rspc"     -> code = <<"S", "C", "_", "R", "S", "P", "C">>
      [] r = "numpad"      -> code \in DOMAIN numpad_keys
      [] r = "any"         -> any_match(code).ok
      [] r = "lsft"        -> lsft_match(code).ok
      [] r = "keycode_map" -> code \in DOMAIN QMK_KEYCODE_MAP
      [] r = "kc_prefix"   -> startswith(code, <<"K", "C", "_">>)
      [] r = "fallback"    -> TRUE

\* the return of the mod_combo branch
mod_combo_label(mod, key) ==
    <<get(mod_short, mod, Slice(mod, 4)) \o key, get(mod_name, mod, mod) \o <<"+">> \o key>>

\* the body of the LSFT() fallback branch
lsft_label_6(inner) ==
    IF startswith(inner, <<"K", "C", "_">>)
    THEN LET inner_key == Drop(inner, 3)
         IN  IF inner_key = <<"T", "A", "B">> THEN <<<<"U+21E7", "U+21E5">>, <<"S", "h", "i", "f", "t", "+", "T", "a", "b">>>>
             ELSE <<<<"U+21E7">> \o Slice(inner_key, 6), <<"S", "h", "i", "f", "t", "+">> \o inner_key>>
    ELSE <<<<"U+21E7">> \o Slice(inner, 6), <<"S", "h", "i", "f", "t", "+">> \o inner>>

lsft_label(inner) ==
    IF startswith(inner, <<"K", "C", "_">>)
    THEN LET inner_key == Drop(inner, 3)
         IN  IF inner_key = <<"T", "A", "B">> THEN <<<<"U+21E7", "U+21E5">>, <<"S", "h", "i", "f", "t", "+", "T", "a", "b">>>>
             ELSE <<<<"U+21E7">> \o Slice(inner_key, 4), <<"S", "h", "i", "f", "t", "+">> \o inner_key>>
    ELSE <<<<"U+21E7">> \o Slice(inner, 4), <<"S", "h", "i", "f", "t", "+">> \o inner>>

Handle(r, code) ==
    CASE r = "no_key"      -> <<<<>>, <<>>>>
      [] r = "transparent" -> <<<<"U+25BD">>, <<"T", "r", "a", "n", "s", "p", "a", "r", "e", "n", "t">>>>
      [] r = "mod_combo"   ->
            LET g == mod_combo_match(code).groups IN mod_combo_label(g[1], g[2])
      [] r = "shift"       ->
            LET key == shift_match(code).groups[1]
            IN  <<<<"U+21E7">> \o key, <<"S", "h", "i", "f", "t", "+">> \o key>>
      [] r = "lt"          ->
            LET g == lt_match(code).groups
            IN  <<upper(g[2]), <<"L">> \o g[1] \o <<"/", "T", "a", "p">>>>
      [] r = "mod_tap"     ->
            LET g == mod_tap_match(code).groups
            IN  <<upper(g[2]), get(mod_tap_short, g[1], g[1]) \o <<"/", "T", "a", "p">>>>
      [] r = "mo"          ->
            LET layer == mo_match(code).groups[1]
            IN  <<<<"M", "O">> \o layer, <<"M", "o", "m", "e", "n", "t", "a", "r", "y", " ", "L">> \o layer>>
      [] r = "df"          ->
            LET layer == df_match(code).groups[1]
            IN  <<<<"L">> \o layer, <<"D", "e", "f", "a", "u", "l", "t", " ", "L">> \o layer>>
      [] r = "qk_rep"      -> <<<<"U+21BB">>, <<"R", "e", "p", "e", "a", "t">>>>
      [] r = "qk_boot"     -> <<<<"B", "O", "O", "T">>, <<"B", "o", "o", "t", "l", "o", "a", "d", "e", "r">>>>
      [] r = "qk_rbt"      -> <<<<"R", "S", "T">>, <<"R", "e", "s", "e", "t">>>>
      [] r = "ee_clr"      -> <<<<"C", "L", "R">>, <<"E", "E", "P", "R", "O", "M", " ", "C", "l", "e", "a", "r">>>>
      [] r = "db_togg"     -> <<<<"D", "B", "G">>, <<"D", "e", "b", "u", "g", " ", "T", "o", "g", "g", "l", "e">>>>
      [] r = "sc_lspo"     -> <<<<"L", "(">>, <<"S", "p", "a", "c", "e", " ", "C", "a", "d", "e", "t", " ", "L", "e", "f", "t">>>>
      [] r = "sc_rspc"     -> <<<<"R", ")">>, <<"S", "p", "a", "c", "e", " ", "C", "a", "d", "e", "t", " ", "R", "i", "g", "h", "t">>>>
      [] r = "numpad"      -> <<numpad_keys[code], <<"N", "u", "m", "p", "a", "d", " ">> \o numpad_keys[code]>>
      [] r = "any"         ->
            LET inner == any_match(code).groups[1]
            IN  <<Slice(inner, 6), <<"A", "n", "y", ":", " ">> \o inner>>
      [] r = "lsft"        -> lsft_label(lsft_match(code).groups[1])
      [] r = "keycode_map" -> <<QMK_KEYCODE_MAP[code], code>>
      [] r = "kc_prefix"   ->
            LET rest == Drop(code, 3)
            IN  IF rest \in DOMAIN special_mappings
                THEN <<special_mappings[rest], code>>
                ELSE <<Slice(rest, 6), code>>
      [] r = "fallback"    -> <<Slice(code, 8), code>>

\* the first test of the chain that succeeds
first_match(code) ==
    LET k == CHOOSE k \in 1..Len(RuleOrder) :
                 /\ Matches(RuleOrder[k], code)
                 /\ \A j \in 1..(k - 1) : ~Matches(RuleOrder[j], code)
    IN  RuleOrder[k]

parse_keycode(code) == Handle(first_match(code), code)

---------------------------------------------------------------------------
(* escape_svg_text.                                                        *)

\* `not text`: None and the empty string are falsy
falsy(value) == value.type = "NoneType" \/ value.val = <<>>

escape_svg_text_amp_last(value) ==
    IF falsy(value) THEN <<>>
    ELSE LET e1 == replace(value.val, <<"<">>, <<"&", "l", "t", ";">>)
             e2 == replace(e1, <<">">>, <<"&", "g", "t", ";">>)
             e3 == replace(e2, <<"\"">>, <<"&", "q", "u", "o", "t", ";">>)
             e4 == replace(e3, <<"'">>, <<"&", "a", "p", "o", "s", ";">>)
         IN  replace(e4, <<"&">>, <<"&", "a", "m", "p", ";">>)

escape_svg_text_no_amp(value) ==
    IF falsy(value) THEN <<>>
    ELSE LET e2 == replace(value.val, <<"<">>, <<"&", "l", "t", ";">>)
             e3 == replace(e2, <<">">>, <<"&", "g", "t", ";">>)
             e4 == replace(e3, <<"\"">>, <<"&", "q", "u", "o", "t", ";">>)
         IN  replace(e4, <<"'">>, <<"&", "a", "p", "o", "s", ";">>)

escape_svg_text(value) ==
    IF falsy(value) THEN (IF value.type = "str" THEN value.val ELSE <<>>)
    ELSE LET e1 == replace(value.val, <<"&">>, <<"&", "a", "m", "p", ";">>)
             e2 == replace(e1, <<"<">>, <<"&", "l", "t", ";">>)
             e3 == replace(e2, <<">">>, <<"&", "g", "t", ";">>)
             e4 == replace(e3, <<"\"">>, <<"&", "q", "u", "o", "t", ";">>)
         IN  replace(e4, <<"'">>, <<"&", "a", "p", "o", "s", ";">>)

---------------------------------------------------------------------------
(* The inputs the model draws.                                             *)

\* every sequence over S of length at most n
SeqsUpTo(S, n) == UNION {[1..k -> S] : k \in 0..n}

\* trailing junk after a code
Suffixes == SeqsUpTo({"x", ")"}, MaxSuffix)

\* the key character X of a wrapper W(KC_X)
KeyChars == AZ09 \cup {"a", "q", "_"}

\* layer numbers: every short one, and a run of each length up to MaxDigits
Numbers ==
    SeqsUpTo({"0", "1", "2", "3"}, 2) \cup {[j \in 1..k |-> "1"] : k \in 0..MaxDigits}

Wrappers ==
    {<<"L", "G", "U", "I">>, <<"R", "G", "U", "I">>, <<"L", "A", "L", "T">>, <<"R", "A", "L", "T">>, <<"L", "C", "T", "L">>, <<"R", "C", "T", "L">>, <<"L", "S", "F", "T">>, <<"R", "S", "F", "T">>,
     <<"S", "F", "T">>, <<"S">>, <<"l", "g", "u", "i">>, <<"L", "G", "U", "I", "_", "T">>, <<"R", "S", "F", "T", "_", "T">>, <<"L", "C", "T", "L", "_", "T">>}

Inners ==
    {<<>>, <<"K", "C", "_", "T", "A", "B">>, <<"K", "C", "_">>, <<"K", "C", "_", "Q">>, <<"K", "C", "_", "a">>, <<"K", "C", "_", "E", "N", "T", "E", "R">>, <<"K", "C", "_", "S", "P", "C">>, <<"K", "C", "_", "F", "1", "2">>,
     <<"K", "C", "_", "Q", "Q">>, <<"T", "A", "B">>, <<"Q">>, <<"a", "b", "c", "d", "e", "f", "g", "h">>, <<"K", "C", "_", "E", "S", "C", "A", "P", "E">>, <<"M", "O", "(", "1">>, <<"K", "C", "_", "T", "&", "B">>}

BaseCodes ==
    DOMAIN QMK_KEYCODE_MAP \cup DOMAIN numpad_keys
    \cup {<<"K", "C", "_", "N", "O">>, <<"Q", "K", "_", "R", "E", "P">>, <<"Q", "K", "_", "B", "O", "O", "T">>, <<"Q", "K", "_", "R", "B", "T">>, <<"E", "E", "_", "C", "L", "R">>, <<"D", "B", "_", "T", "O", "G", "G">>,
          <<"S", "C", "_", "L", "S", "P", "O">>, <<"S", "C", "_", "R", "S", "P", "C">>, <<"K", "C", "_", "E", "N", "T", "E", "R">>, <<"K", "C", "_", "E", "S", "C", "A", "P", "E">>, <<"K", "C", "_", "N", "U", "B", "S">>, <<"R", "G", "B", "_", "T", "O", "G">>,
          <<"Q", "K", "_", "B", "O", "O", "T", "L", "O", "A", "D", "E", "R">>, <<"k", "c", "_", "a">>, <<"{", "{", "K", "E", "Y", "_", "0", "}", "}">>}
    \cup {w \o <<"(", "K", "C", "_">> \o <<x>> \o <<")">> : w \in Wrappers, x \in KeyChars}
    \cup {<<"M", "O", "(">> \o n \o <<")">> : n \in Numbers}
    \cup {<<"D", "F", "(">> \o n \o <<")">> : n \in Numbers}
    \cup {<<"L", "T", "(">> \o n \o <<",", "K", "C", "_">> \o <<x>> \o <<")">> : n \in Numbers, x \in {"S", "s", "5"}}
    \cup {<<"A", "N", "Y", "(">> \o inner \o <<")">> : inner \in Inners}
    \cup {<<"L", "S", "F", "T", "(">> \o inner \o <<")">> : inner \in Inners}

Codes ==
    {b \o s : b \in BaseCodes, s \in Suffixes}
    \cup SeqsUpTo({"K", "C", "_", "N", "O"}, MaxLen + 1)

Texts == {None} \cup {Str(s) : s \in SeqsUpTo({"&", "<", ">", "\"", "'", "a", ";"}, MaxLen)}

Fragments ==
    {<<"{", "{", "K", "E", "Y", "_">>, <<"{", "{", "S", "U", "B", "_", "1", "}", "}">>, <<"0", "}", "}">>, <<"{", "{", "K", "E", "Y", "_", "0", "}", "}">>, <<"{", "{", "K", "E", "Y", "_", "1", "}", "}">>, <<"{", "{", "K", "E", "Y", "_", "5", "9", "}", "}">>,
     <<"{", "{", "L", "A", "Y", "E", "R", "_", "T", "I", "T", "L", "E", "}", "}">>}

RECURSIVE Flatten(_)
Flatten(ss) == IF ss = <<>> THEN <<>> ELSE Head(ss) \o Flatten(Tail(ss))

Templates == {Flatten(fs) : fs \in SeqsUpTo(Fragments, MaxFrags)}

\* a layer is a JSON list of key codes, or a value that is no list
Layers ==
    {<<>>, <<Str(<<"K", "C", "_", "A">>)>>, <<Str(<<"K", "C", "_", "A", "M", "P", "R">>), None, Str(<<"K", "C", "_", "L", "T">>)>>,
     [k \in 1..61 |-> Str(<<"K", "C", "_", "B">>)]}

\* the fields of the keyboard JSON the function reads; a field that is missing
\* or no string is None
KeyboardDatas ==
    {[layers |-> <<List(l)>>, keymap |-> Str(<<"k", "<">>), layout |-> Str(<<"o">>)] :
         l \in Layers}
    \cup {[layers |-> <<None>>, keymap |-> None, layout |-> None],
          [layers |-> <<List(<<Str(<<"K", "C", "_", "A">>)>>)>>, keymap |-> None, layout |-> None]}

---------------------------------------------------------------------------
(* The decoder as a state machine: one call of parse_keycode.              *)

InitDecodeIdle ==
    /\ keycode = <<>>
    /\ pc = "idle"
    /\ short = <<>>
    /\ long = <<>>
    /\ rule = "none"

InitEscapeIdle ==
    /\ text = None
    /\ escaped = <<>>

InitSvgIdle ==
    /\ template = <<>>
    /\ keyboard_data = [layers |-> <<>>, keymap |-> None, layout |-> None]
    /\ layer_index = 0
    /\ svg_content = <<>>
    /\ i = 0
    /\ svg_pc = "idle"

InitDecode ==
    /\ keycode \in Codes
    /\ pc = "call"
    /\ short = <<>>
    /\ long = <<>>
    /\ rule = "none"
    /\ InitEscapeIdle
    /\ InitSvgIdle

ParseKeycode ==
    /\ pc = "call"
    /\ LET r == parse_keycode(keycode)
       IN  /\ short' = r[1]
           /\ long' = r[2]
    /\ rule' = first_match(keycode)
    /\ pc' = "done"
    /\ UNCHANGED <<keycode, escape_vars, svg_vars>>

NextDecode == ParseKeycode

SpecDecode == InitDecode /\ [][NextDecode]_vars

---------------------------------------------------------------------------
(* The escaper as a state machine: a call on the text, then a call on the  *)
(* text that call returned.                                                *)

InitEscape ==
    /\ text \in Texts
    /\ escaped = <<>>
    /\ InitDecodeIdle
    /\ InitSvgIdle

EscapeText ==
    /\ escaped = <<>>
    /\ escaped' = <<escape_svg_text(text)>>
    /\ UNCHANGED <<text, decode_vars, svg_vars>>

EscapeAgain ==
    /\ Len(escaped) = 1
    /\ escaped' = Append(escaped, escape_svg_text(Str(escaped[1])))
    /\ UNCHANGED <<text, decode_vars, svg_vars>>

NextEscape == EscapeText \/ EscapeAgain

SpecEscape == InitEscape /\ [][NextEscape]_vars

---------------------------------------------------------------------------
(* generate_layer_svg, one step per loop iteration.                        *)

\* layers = keyboard_data.get("layers", []); the model's layers is always a list
layer_of(data, index) == data.layers[index + 1]

\* keyboard_name and layout_name: "Unknown" when the field is no string
name_of(value) == IF value.type = "str" THEN value.val ELSE <<"U", "n", "k", "n", "o", "w", "n">>

\* str(keycode) if keycode is not None else ""
code_of(value) == IF value.type = "str" THEN value.val ELSE <<>>

key_placeholder(k) == <<"{", "{", "K", "E", "Y", "_">> \o str_int(k) \o <<"}", "}">>
sub_placeholder(k) == <<"{", "{", "S", "U", "B", "_">> \o str_int(k) \o <<"}", "}">>

InitSvg ==
    /\ template \in Templates
    /\ keyboard_data \in KeyboardDatas
    /\ layer_index \in {0, 1}
    /\ svg_content = <<>>
    /\ i = 0
    /\ svg_pc = "start"
    /\ InitDecodeIdle
    /\ InitEscapeIdle

\* the guards at the top of the function
ReturnNone ==
    /\ svg_pc = "start"
    /\ IF layer_index >= Len(keyboard_data.layers) THEN TRUE
       ELSE layer_of(keyboard_data, layer_index).type # "list"
    /\ svg_pc' = "none"
    /\ UNCHANGED <<template, keyboard_data, layer_index, svg_content, i,
                   decode_vars, escape_vars>>

\* title and subtitle
SetTitles ==
    /\ svg_pc = "start"
    /\ layer_index < Len(keyboard_data.layers)
    /\ layer_of(keyboard_data, layer_index).type = "list"
    /\ LET layer_title == name_of(keyboard_data.keymap) \o <<" ", "-", " ", "L", "a", "y", "e", "r", " ">>
                              \o str_int(layer_index)
           layer_subtitle == <<"L", "a", "y", "o", "u", "t", ":", " ">> \o name_of(keyboard_data.layout)
           c1 == replace(template, <<"{", "{", "L", "A", "Y", "E", "R", "_", "T", "I", "T", "L", "E", "}", "}">>,
                         escape_svg_text(Str(layer_title)))
       IN  svg_content' = replace(c1, <<"{", "{", "L", "A", "Y", "E", "R", "_", "S", "U", "B", "T", "I", "T", "L", "E", "}", "}">>,
                                  escape_svg_text(Str(layer_subtitle)))
    /\ i' = 0
    /\ svg_pc' = "fill"
    /\ UNCHANGED <<template, keyboard_data, layer_index, decode_vars, escape_vars>>

\* one iteration of `for i, keycode in enumerate(layer)`
FillKey ==
    /\ svg_pc = "fill"
    /\ LET layer == layer_of(keyboard_data, layer_index).val
       IN  /\ i < Len(layer)
           /\ i < 60
           /\ LET label == parse_keycode(code_of(layer[i + 1]))[1]
                  escaped_label == escape_svg_text(Str(label))
                  c1 == replace(svg_content, key_placeholder(i), escaped_label)
              IN  svg_content' = replace(c1, sub_placeholder(i), <<>>)
    /\ i' = i + 1
    /\ UNCHANGED <<template, keyboard_data, layer_index, svg_pc,
                   decode_vars, escape_vars>>

\* the loop ends: the layer is exhausted, or i >= 60 breaks
EndFill ==
    /\ svg_pc = "fill"
    /\ LET layer == layer_of(keyboard_data, layer_index).val
       IN  i >= Len(layer) \/ i >= 60
    /\ i' = 0
    /\ svg_pc' = "clear"
    /\ UNCHANGED <<template, keyboard_data, layer_index, svg_content,
                   decode_vars, escape_vars>>

\* one iteration of `for i in range(60)`
ClearSlot ==
    /\ svg_pc = "clear"
    /\ i < 60
    /\ LET c1 == replace(svg_content, key_placeholder(i), <<>>)
       IN  svg_content' = replace(c1, sub_placeholder(i), <<>>)
    /\ i' = i + 1
    /\ UNCHANGED <<template, keyboard_data, layer_index, svg_pc,
                   decode_vars, escape_vars>>

\* return svg_content
ReturnSvg ==
    /\ svg_pc = "clear"
    /\ i = 60
    /\ svg_pc' = "done"
    /\ UNCHANGED <<template, keyboard_data, layer_index, svg_content, i,
                   decode_vars, escape_vars>>

NextSvg == ReturnNone \/ SetTitles \/ FillKey \/ EndFill \/ ClearSlot \/ ReturnSvg

SpecSvg == InitSvg /\ [][NextSvg]_vars

---------------------------------------------------------------------------
(* Properties of parse_keycode, checked under SpecDecode.                  *)

\* C1: for every code, the short label returned by parse_keycode has at most
\* 8 characters, whichever rule of the decoder produced it.
C1_ShortAtMost8 == pc = "done" => Len(short) <= 8

\* C2: parse_keycode returns an empty short label only for the empty code and
\* for KC_NO, and then the long description is empty too; every other code
\* gets a non-empty short label.
C2_EmptyShortOnlyForNoKey ==
    pc = "done" =>
        /\ (short = <<>>) <=> (keycode = <<>> \/ keycode = <<"K", "C", "_", "N", "O">>)
        /\ (short = <<>>) => (long = <<>>)

\* the pairs the rules ahead of the table lookup return for the codes that are
\* also keys of QMK_KEYCODE_MAP
C3_EarlierPair ==
    <<"K", "C", "_", "T", "R", "N", "S">> :> <<<<"U+25BD">>, <<"T", "r", "a", "n", "s", "p", "a", "r", "e", "n", "t">>>> @@
    <<"D", "F", "(", "0", ")">> :> <<<<"L", "0">>, <<"D", "e", "f", "a", "u", "l", "t", " ", "L", "0">>>> @@
    <<"D", "F", "(", "1", ")">> :> <<<<"L", "1">>, <<"D", "e", "f", "a", "u", "l", "t", " ", "L", "1">>>> @@
    <<"D", "F", "(", "2", ")">> :> <<<<"L", "2">>, <<"D", "e", "f", "a", "u", "l", "t", " ", "L", "2">>>> @@
    <<"Q", "K", "_", "B", "O", "O", "T">> :> <<<<"B", "O", "O", "T">>, <<"B", "o", "o", "t", "l", "o", "a", "d", "e", "r">>>> @@
    <<"D", "B", "_", "T", "O", "G", "G">> :> <<<<"D", "B", "G">>, <<"D", "e", "b", "u", "g", " ", "T", "o", "g", "g", "l", "e">>>>

C3_EarlierRules ==
    {"no_key", "transparent", "mod_combo", "shift", "lt", "mod_tap", "mo", "df",
     "qk_rep", "qk_boot", "qk_rbt", "ee_clr", "db_togg", "sc_lspo", "sc_rspc",
     "numpad", "any", "lsft"}

\* C3: first match wins: a code that is a key of QMK_KEYCODE_MAP and is matched
\* by a rule ahead of the table lookup (KC_TRNS, DF(0), DF(1), DF(2), QK_BOOT,
\* DB_TOGG, and no other key) gets the earlier rule's pair, never the table's
\* (label, code) pair.
C3_FirstMatchWins ==
    (pc = "done" /\ keycode \in DOMAIN QMK_KEYCODE_MAP) =>
        /\ (\E r \in C3_EarlierRules : Matches(r, keycode))
               <=> keycode \in DOMAIN C3_EarlierPair
        /\ keycode \in DOMAIN C3_EarlierPair =>
               /\ <<short, long>> = C3_EarlierPair[keycode]
               /\ <<short, long>> # <<QMK_KEYCODE_MAP[keycode], keycode>>

C3_Witness ==
    /\ pc = "done"
    /\ keycode = <<"Q", "K", "_", "B", "O", "O", "T">>
    /\ <<short, long>> = <<<<"B", "O", "O", "T">>, <<"B", "o", "o", "t", "l", "o", "a", "d", "e", "r">>>>

C4_CombinatorRules == {"mod_combo", "shift", "lt", "mod_tap", "mo", "df", "any", "lsft"}

\* where the match of a combinator rule ends in the code
C4_match_end(r, code) ==
    CASE r = "mod_combo" -> mod_combo_match(code).end
      [] r = "shift"     -> shift_match(code).end
      [] r = "lt"        -> lt_match(code).end
      [] r = "mod_tap"   -> mod_tap_match(code).end
      [] r = "mo"        -> mo_match(code).end
      [] r = "df"        -> df_match(code).end
      [] r = "any"       -> any_match(code).end
      [] r = "lsft"      -> lsft_match(code).end

\* C4: every combinator pattern matches the whole code: a code decoded by a
\* combinator rule has no characters after the combinator form, so a valid form
\* followed by extra characters is never decoded by that form's rule.
C4_CombinatorsMatchWholeCode ==
    (pc = "done" /\ rule \in C4_CombinatorRules) =>
        C4_match_end(rule, keycode) = Len(keycode)

C5_symbol == <<"G", "U", "I">> :> <<"U+2318">> @@ <<"A", "L", "T">> :> <<"U+2325">> @@ <<"C", "T", "L">> :> <<"U+2303">> @@ <<"S", "F", "T">> :> <<"U+21E7">>
C5_name == <<"G", "U", "I">> :> <<"W", "i", "n">> @@ <<"A", "L", "T">> :> <<"A", "l", "t">> @@ <<"C", "T", "L">> :> <<"C", "t", "r", "l">> @@ <<"S", "F", "T">> :> <<"S", "h", "i", "f", "t">>

\* code is MOD(KC_X) for one of the eight modifiers and an X of Xs
C5_IsModKey(code, Xs) ==
    /\ Len(code) = 10
    /\ code[1] \in {"L", "R"}
    /\ SubSeq(code, 2, 4) \in DOMAIN C5_symbol
    /\ SubSeq(code, 5, 8) = <<"(", "K", "C", "_">>
    /\ code[9] \in Xs
    /\ code[10] = ")"

C5_Expected(code) ==
    <<C5_symbol[SubSeq(code, 2, 4)] \o <<code[9]>>,
      C5_name[SubSeq(code, 2, 4)] \o <<"+">> \o <<code[9]>>>>

C5_Alphanumeric == AZ09 \cup DOMAIN upper_map

\* C5 as stated: for every modifier MOD of the eight and every single
\* alphanumeric character X, parse_keycode(MOD(KC_X)) is
\* (symbol(MOD)+X, name(MOD)+"+"+X), the same for the left and the right variant.
C5_ModifierCombo_Alphanumeric ==
    (pc = "done" /\ C5_IsModKey(keycode, C5_Alphanumeric)) =>
        <<short, long>> = C5_Expected(keycode)

\* C5 (amended): for every modifier MOD of the eight and every single character
\* X in A-Z or 0-9, parse_keycode(MOD(KC_X)) is (symbol(MOD)+X, name(MOD)+"+"+X);
\* the pair depends on the modifier's family only, so the left and the right
\* variant return the identical pair.
C5_ModifierCombo ==
    (pc = "done" /\ C5_IsModKey(keycode, AZ09)) =>
        <<short, long>> = C5_Expected(keycode)

C5_Witness ==
    /\ pc = "done"
    /\ keycode = <<"R", "A", "L", "T", "(", "K", "C", "_", "K", ")">>
    /\ <<short, long>> = <<<<"U+2325", "K">>, <<"A", "l", "t", "+", "K">>>>

\* C6: shift-alias equivalence: for every X in A-Z or 0-9 the codes S(KC_X),
\* SFT(KC_X), LSFT(KC_X) and RSFT(KC_X) all decode to ("⇧"+X, "Shift+"+X).
C6_ShiftAliases ==
    pc = "done" =>
        \A p \in {<<"S">>, <<"S", "F", "T">>, <<"L", "S", "F", "T">>, <<"R", "S", "F", "T">>} : \A x \in AZ09 :
            keycode = p \o <<"(", "K", "C", "_">> \o <<x>> \o <<")">> =>
                <<short, long>> = <<<<"U+21E7">> \o <<x>>, <<"S", "h", "i", "f", "t", "+">> \o <<x>>>>

C6_Witness ==
    /\ pc = "done"
    /\ keycode = <<"S", "(", "K", "C", "_", "Q", ")">>
    /\ <<short, long>> = <<<<"U+21E7", "Q">>, <<"S", "h", "i", "f", "t", "+", "Q">>>>

\* the inner of a code LSFT(inner) that only the fallback shift rule decodes:
\* non-empty, without ")", and not a single A-Z/0-9 KC_ code
C9_Inner(code) == SubSeq(code, 6, Len(code) - 1)

C9_IsFallbackShift(code) ==
    /\ Len(code) >= 7
    /\ SubSeq(code, 1, 5) = <<"L", "S", "F", "T", "(">>
    /\ code[Len(code)] = ")"
    /\ \A k \in 6..(Len(code) - 1) : code[k] # ")"
    /\ ~(Len(code) = 10 /\ SubSeq(code, 6, 8) = <<"K", "C", "_">> /\ code[9] \in AZ09)

C9_First4(s) == [k \in 1..Min(4, Len(s)) |-> s[k]]

C9_Expected(inner) ==
    IF inner = <<"K", "C", "_", "T", "A", "B">> THEN <<<<"U+21E7", "U+21E5">>, <<"S", "h", "i", "f", "t", "+", "T", "a", "b">>>>
    ELSE IF Len(inner) >= 3 /\ SubSeq(inner, 1, 3) = <<"K", "C", "_">>
    THEN LET stripped == SubSeq(inner, 4, Len(inner))
         IN  <<<<"U+21E7">> \o C9_First4(stripped), <<"S", "h", "i", "f", "t">> \o <<"+">> \o stripped>>
    ELSE <<<<"U+21E7">> \o C9_First4(inner), <<"S", "h", "i", "f", "t", "+">> \o inner>>

\* C9: fallback shift wrapper: LSFT(KC_TAB) decodes to ("⇧⇥","Shift+Tab"); any
\* other LSFT(inner) of the fallback decodes to "⇧" + the first 4 characters of
\* the inner (stripped of a leading KC_) and "Shift+" + that inner.
C9_FallbackShift ==
    (pc = "done" /\ C9_IsFallbackShift(keycode)) =>
        <<short, long>> = C9_Expected(C9_Inner(keycode))

C9_Witness ==
    /\ pc = "done"
    /\ keycode = <<"L", "S", "F", "T", "(", "K", "C", "_", "E", "N", "T", "E", "R", ")">>
    /\ <<short, long>> = <<<<"U+21E7", "E", "N", "T", "E">>, <<"S", "h", "i", "f", "t", "+", "E", "N", "T", "E", "R">>>>

---------------------------------------------------------------------------
(* Properties of escape_svg_text, checked under SpecEscape.                *)

C7_Reserved == {"&", "<", ">", "\"", "'"}

C7_Entity ==
    "&" :> <<"&", "a", "m", "p", ";">> @@ "<" :> <<"&", "l", "t", ";">> @@ ">" :> <<"&", "g", "t", ";">> @@
    "\"" :> <<"&", "q", "u", "o", "t", ";">> @@ "'" :> <<"&", "a", "p", "o", "s", ";">>

\* s with each reserved character replaced by its own entity, in place
C7_Expected(s) ==
    Flatten([k \in 1..Len(s) |->
                 IF s[k] \in C7_Reserved THEN C7_Entity[s[k]] ELSE <<s[k]>>])

\* C7: escape_svg_text(s) holds none of < > " ' and each of its & starts one of
\* the five entities; each reserved character of s is replaced by its own
\* entity and every other character stays in place; empty or None gives "".
C7_EscapeCorrect ==
    Len(escaped) >= 1 =>
        LET out == escaped[1]
        IN  /\ \A k \in 1..Len(out) : out[k] \notin {"<", ">", "\"", "'"}
            /\ \A k \in 1..Len(out) :
                   out[k] = "&" => \E c \in C7_Reserved : lit_at(out, k, C7_Entity[c])
            /\ falsy(text) => out = <<>>
            /\ ~falsy(text) => out = C7_Expected(text.val)

C7_Witness ==
    /\ Len(escaped) >= 1
    /\ text = Str(<<"<", "a", "&", "'">>)
    /\ escaped[1] = <<"&", "l", "t", ";", "a", "&", "a", "m", "p", ";", "&", "a", "p", "o", "s", ";">>

C8_HasReserved(s) == \E k \in 1..Len(s) : s[k] \in C7_Reserved

\* C8: escape_svg_text is not idempotent: for a text with a reserved character,
\* escaping the escaped text gives a different text, each & of the entities
\* having grown into &amp;; a text with no reserved character is returned
\* unchanged.
C8_NotIdempotent ==
    /\ (Len(escaped) = 2 /\ text.type = "str" /\ C8_HasReserved(text.val)) =>
           /\ escaped[2] # escaped[1]
           /\ Len(escaped[2]) =
                  Len(escaped[1])
                  + 4 * Cardinality({k \in 1..Len(escaped[1]) : escaped[1][k] = "&"})
    /\ (Len(escaped) >= 1 /\ text.type = "str" /\ ~C8_HasReserved(text.val)) =>
           escaped[1] = text.val

C8_Witness ==
    /\ Len(escaped) = 2
    /\ text = Str(<<"<">>)
    /\ escaped = <<<<"&", "l", "t", ";">>, <<"&", "a", "m", "p", ";", "l", "t", ";">>>>

---------------------------------------------------------------------------
(* Property of generate_layer_svg, checked under SpecSvg.                  *)

\* C10: the document generate_layer_svg returns holds no placeholder
\* {{KEY_i}} and no placeholder {{SUB_i}} for any i in 0..59.
C10_NoPlaceholderLeft ==
    svg_pc = "done" =>
        \A k \in 0..59 :
            /\ ~contains(svg_content, key_placeholder(k))
            /\ ~contains(svg_content, sub_placeholder(k))

=============================================================================
